---- MODULE Spec2Model ----
(***************************************************************************)
(* chirpy: the session subsystem (login, refresh, revoke), the access      *)
(* token codec (MakeJWT / ValidateJWT), the password hasher, the           *)
(* refresh_tokens queries, and the handlers that ask for an access token   *)
(* (delete chirp, update user).                                            *)
(*                                                                         *)
(* Time is counted in ticks; a second is TicksPerSecond ticks.  A          *)
(* time.Duration is a signed DurationBits-bit count of ticks (Go: a signed *)
(* 64-bit count of nanoseconds) and wraps on overflow; a time.Time does    *)
(* not wrap.  HTTP handlers run concurrently (one goroutine per request):  *)
(* each handler is a process whose steps are its database calls and its    *)
(* clock reads; the pure code between two such calls belongs to the step   *)
(* that follows it.                                                        *)
(***************************************************************************)
EXTENDS Integers, Sequences, FiniteSets, TLC

\* ------------------------------------------------------------ bounds

\* Ticks in one second: the clock's resolution below the second.
TicksPerSecond == 2
\* Width of a time.Duration in bits, counted in ticks.
DurationBits == 25
\* Requests the server handles in one behaviour of the session specification.
MaxRequests == 2
\* Login requests in one behaviour of the login specification.
MaxLogins == 1
\* Advances of the clock in one behaviour.
MaxClockAdvances == 2

\* ------------------------------------------------------------ time

Second == TicksPerSecond
Hour == 60 * 60 * Second
SixtyDays == Hour * 24 * 60

DurationModulus == 2 ^ DurationBits
MaxDuration == (DurationModulus \div 2) - 1
MinDuration == -(DurationModulus \div 2)

\* Signed two's-complement wrap of an integer into a time.Duration.
WrapDuration(n) == ((n - MinDuration) % DurationModulus) + MinDuration

\* time.Duration(n) * time.Second
DurationOfSeconds(n) == WrapDuration(n * Second)

\* jwt.NewNumericDate: the time truncated to whole seconds.
NewNumericDate(t) == t \div Second

\* The instant (in ticks) a NumericDate denotes.
NumericDateTime(d) == d * Second

\* ------------------------------------------------------------ values

\* A Go error value: "" is nil.
NoError == ""
ErrNoAuthHeaderIncluded == "no authorization header included"
ErrMalformedHeader == "malformed authorization header"
ErrNoRows == "sql: no rows in result set"
ErrConnection == "database unavailable"
ErrEntropy == "entropy source failed"
ErrMismatchedHashAndPassword == "hashedPassword is not the hash of the given password"
ErrTokenSignatureInvalid == "token signature is invalid"
ErrTokenExpired == "token is expired"
ErrInvalidUUID == "invalid UUID"

\* uuid.Nil, and the zero values of the other types.
NilUUID == "00000000"
NoString == ""

\* sql.NullTime: revoked_at is NULL until the row is revoked.
NullTime == [Valid |-> FALSE, Time |-> 0]
SomeTime(t) == [Valid |-> TRUE, Time |-> t]

\* The server's signing secret (JWT_SECRET) and another party's secret.
ServerSecret == "server-secret"
OtherSecret == "wrong-secret"
Secrets == {ServerSecret, OtherSecret}

UserIDs == {"u1", "u2"}
Salts == {"salt1", "salt2"}
Passwords == {"", "secret1"}

\* ------------------------------------------------------------ credential hasher

\* A password of exactly 72 bytes, and two passwords of 73 bytes that begin
\* with it.
Password72 == "p72"
LongPasswords == {"p72+a", "p72+b"}
\* The passwords the hasher is called with on its own.
PasswordInputs == Passwords \cup {Password72} \cup LongPasswords

ErrPasswordTooLong == "bcrypt: password length exceeds 72 bytes"
ErrHashTooShort == "crypto/bcrypt: hashedSecret too short to be a bcrypted password"

\* The bytes of the password that bcrypt's Blowfish key setup reads: the
\* first 72.
BlowfishKey(password) ==
    IF password \in LongPasswords THEN Password72 ELSE password

\* string(nil): what HashPassword returns beside an error.
NoHash == [alg |-> "", cost |-> 0, salt |-> "", digest |-> <<>>]

\* HashPassword: bcrypt.GenerateFromPassword(password, 14), salted, one
\* way.  rejectsLong tells the build: golang.org/x/crypto from v0.5.0 on
\* answers ErrPasswordTooLong for more than 72 bytes, earlier versions hash
\* the first 72.
HashPassword(password, salt, rejectsLong) ==
    IF rejectsLong /\ password \in LongPasswords
    THEN [val |-> NoHash, err |-> ErrPasswordTooLong]
    ELSE [val |-> [alg |-> "bcrypt", cost |-> 14, salt |-> salt,
                   digest |-> <<salt, BlowfishKey(password)>>],
          err |-> NoError]

\* CheckPasswordHash: bcrypt.CompareHashAndPassword, nil iff the password
\* re-hashes to the digest under the hash's salt and cost.
CheckPasswordHash(password, hash) ==
    IF hash.alg # "bcrypt" THEN ErrHashTooShort
    ELSE IF hash.digest = <<hash.salt, BlowfishKey(password)>>
    THEN NoError
    ELSE ErrMismatchedHashAndPassword

\* ------------------------------------------------------------ bearer extraction

\* An Authorization header value is modelled by the fields strings.Split(h, " ")
\* returns: a non-empty sequence of space-free strings.  The empty (or absent)
\* header is <<"">>.
EmptyHeader == <<"">>

GetBearerToken(authHeader) ==
    IF authHeader = EmptyHeader
    THEN [val |-> NoString, err |-> ErrNoAuthHeaderIncluded]
    ELSE IF Len(authHeader) # 2 \/ authHeader[1] # "Bearer"
         THEN [val |-> NoString, err |-> ErrMalformedHeader]
         ELSE [val |-> authHeader[2], err |-> NoError]

\* GetAPIKey: as GetBearerToken, for the scheme "ApiKey"; its errors are made
\* on the spot, with the same texts.
GetAPIKey(authHeader) ==
    IF authHeader = EmptyHeader
    THEN [val |-> NoString, err |-> "no authorization header included"]
    ELSE IF Len(authHeader) # 2 \/ authHeader[1] # "ApiKey"
         THEN [val |-> NoString, err |-> "malformed authorization header"]
         ELSE [val |-> authHeader[2], err |-> NoError]

\* ------------------------------------------------------------ access token codec

\* uuid.UUID.String and uuid.Parse.
UUIDString(id) == <<"uuid", id>>
UUIDParse(s) ==
    IF Len(s) = 2 /\ s[1] = "uuid" /\ s[2] \in UserIDs
    THEN [val |-> s[2], err |-> NoError]
    ELSE [val |-> NilUUID, err |-> ErrInvalidUUID]

\* HMAC-SHA256 of the claims under the key.
HS256(claims, key) == <<key, claims.iss, claims.sub, claims.iat, claims.exp>>

\* MakeJWT that leaves expiresIn out of ExpiresAt.
MakeJWT_ExpiresAtNow(userID, tokenSecret, expiresIn, issuedAtNow, expiresAtNow) ==
    LET claims == [iss |-> "chirpy",
                   iat |-> NewNumericDate(issuedAtNow),
                   exp |-> NewNumericDate(expiresAtNow),
                   sub |-> UUIDString(userID)]
    IN [claims |-> claims, sig |-> HS256(claims, tokenSecret)]

\* MakeJWT: issuedAtNow and expiresAtNow are its two readings of time.Now().
MakeJWT(userID, tokenSecret, expiresIn, issuedAtNow, expiresAtNow) ==
    LET claims == [iss |-> "chirpy",
                   iat |-> NewNumericDate(issuedAtNow),
                   exp |-> NewNumericDate(expiresAtNow + expiresIn),
                   sub |-> UUIDString(userID)]
    IN [claims |-> claims, sig |-> HS256(claims, tokenSecret)]

\* The zero value of a token field that holds no token.
NoJWT ==
    [claims |-> [iss |-> "", iat |-> 0, exp |-> 0, sub |-> <<>>], sig |-> <<>>]

\* ParseWithClaims that still accepts the token at the instant of exp.
ParseWithClaims_InclusiveExp(token, tokenSecret, t) ==
    IF token.sig # HS256(token.claims, tokenSecret) THEN ErrTokenSignatureInvalid
    ELSE IF ~(t <= NumericDateTime(token.claims.exp)) THEN ErrTokenExpired
    ELSE NoError

\* ParseWithClaims that does not verify the signature.
ParseWithClaims_NoSignature(token, tokenSecret, t) ==
    IF ~(t < NumericDateTime(token.claims.exp)) THEN ErrTokenExpired
    ELSE NoError

\* jwt.ParseWithClaims: the signature under the key, then the registered
\* claims (exp: valid while the time is before it).
ParseWithClaims(token, tokenSecret, t) ==
    IF token.sig # HS256(token.claims, tokenSecret) THEN ErrTokenSignatureInvalid
    ELSE IF ~(t < NumericDateTime(token.claims.exp)) THEN ErrTokenExpired
    ELSE NoError

\* ValidateJWT at clock reading t.
ValidateJWT(tokenString, tokenSecret, t) ==
    LET err == ParseWithClaims(tokenString, tokenSecret, t)
    IN IF err # NoError
       THEN [val |-> NilUUID, err |-> err]
       ELSE UUIDParse(tokenString.claims.sub)

\* ------------------------------------------------------------ state

VARIABLES
    now,             \* the clock (time.Now() and the database's NOW()), in ticks
    users,           \* the users table: id -> [email, hashed_password]
    refresh_tokens,  \* the refresh_tokens table: a set of rows
    generated,       \* how many refresh tokens crypto/rand has produced
    requests,        \* the requests received so far, each with its handler's position
    codec,           \* the access token codec exercised on its own (SpecCodec)
    cfg,             \* apiConfig: the server's configuration, read at startup
    chirps,          \* the chirps table: one row per chirp
    hasher           \* the password hasher exercised on its own (SpecPassword)

vars == <<now, users, refresh_tokens, generated, requests, codec, cfg, chirps, hasher>>

\* apiConfig, as far as the session handlers read it: main sets JWTSecret from
\* the environment when the server starts.
apiConfig(jwtSecret) == [JWTSecret |-> jwtSecret]

\* crypto/rand: 32 random bytes, hex-encoded.  Every draw is a new value, which
\* no client has presented before the server hands it out.
TokenPool == <<"rt1", "rt2", "rt3", "rt4", "rt5">>
MakeRefreshToken(n) == TokenPool[n + 1]
\* A well-formed credential the server never issued.
UnknownToken == "unknown"

Emails == {"a@b.com", "c@d.com", "nobody@b.com"}

\* The password hasher at rest: the handlers call it themselves.
NoHasher ==
    [pc |-> "idle", password |-> NoString, candidate |-> NoString,
     salt |-> NoString, rejectsLong |-> TRUE,
     hash |-> [val |-> NoHash, err |-> NoError], checked |-> NoError]

\* The chirps the database holds as the server starts, one of each user; of a
\* row, the columns GetChirpForDeletion selects.
InitialChirps == {[id |-> "c1", user_id |-> "u1"], [id |-> "c2", user_id |-> "u2"]}

\* The database as the server starts: two users, and the refresh token a login
\* of the first user stored at time 0, which that user's client holds.
InitialRefreshTokens ==
    {[token |-> "rt1", created_at |-> 0, updated_at |-> 0, user_id |-> "u1",
      expires_at |-> SixtyDays, revoked_at |-> NullTime]}

InitialUsers ==
    [u \in UserIDs |->
        IF u = "u1"
        THEN [email |-> "a@b.com", hashed_password |-> HashPassword("secret1", "salt1", TRUE).val]
        ELSE [email |-> "c@d.com", hashed_password |-> HashPassword("", "salt2", TRUE).val]]

\* ------------------------------------------------------------ queries

\* -- name: GetUserByEmail :one
GetUserByEmail(email) ==
    LET found == {u \in DOMAIN users : users[u].email = email}
    IN IF found = {}
       THEN [val |-> NilUUID, err |-> ErrNoRows]
       ELSE [val |-> CHOOSE u \in found : TRUE, err |-> NoError]

\* -- name: CreateRefreshToken :one
CreateRefreshToken(token, created_at, updated_at, user_id, expires_at) ==
    refresh_tokens \cup
        {[token |-> token, created_at |-> created_at, updated_at |-> updated_at,
          user_id |-> user_id, expires_at |-> expires_at, revoked_at |-> NullTime]}

\* GetUserFromRefreshToken without "AND refresh_tokens.revoked_at IS NULL".
GetUserFromRefreshToken_NoRevokedFilter(token, dbNow) ==
    LET found == {u \in DOMAIN users :
                    \E row \in refresh_tokens :
                        /\ u = row.user_id
                        /\ row.token = token
                        /\ row.expires_at > dbNow}
    IN IF found = {}
       THEN [val |-> NilUUID, err |-> ErrNoRows]
       ELSE [val |-> CHOOSE u \in found : TRUE, err |-> NoError]

\* GetUserFromRefreshToken with "expires_at >= NOW()".
GetUserFromRefreshToken_InclusiveExpiry(token, dbNow) ==
    LET found == {u \in DOMAIN users :
                    \E row \in refresh_tokens :
                        /\ u = row.user_id
                        /\ row.token = token
                        /\ row.expires_at >= dbNow
                        /\ ~row.revoked_at.Valid}
    IN IF found = {}
       THEN [val |-> NilUUID, err |-> ErrNoRows]
       ELSE [val |-> CHOOSE u \in found : TRUE, err |-> NoError]

\* -- name: GetUserFromRefreshToken :one   (NOW() is dbNow)
GetUserFromRefreshToken(token, dbNow) ==
    LET found == {u \in DOMAIN users :
                    \E row \in refresh_tokens :
                        /\ u = row.user_id
                        /\ row.token = token
                        /\ row.expires_at > dbNow
                        /\ ~row.revoked_at.Valid}
    IN IF found = {}
       THEN [val |-> NilUUID, err |-> ErrNoRows]
       ELSE [val |-> CHOOSE u \in found : TRUE, err |-> NoError]

\* RevokeRefreshToken that clears revoked_at of a row already revoked.
RevokeRefreshToken_Toggle(token, dbNow) ==
    {IF row.token = token
     THEN [row EXCEPT !.revoked_at = IF row.revoked_at.Valid THEN NullTime
                                     ELSE SomeTime(dbNow),
                      !.updated_at = dbNow]
     ELSE row : row \in refresh_tokens}

\* RevokeRefreshToken with "AND revoked_at IS NULL": the first revocation stays.
RevokeRefreshToken_OnlyIfNull(token, dbNow) ==
    {IF row.token = token /\ ~row.revoked_at.Valid
     THEN [row EXCEPT !.revoked_at = SomeTime(dbNow), !.updated_at = dbNow]
     ELSE row : row \in refresh_tokens}

\* RevokeRefreshToken that ends every session of the token's user.
RevokeRefreshToken_AllOfUser(token, dbNow) ==
    {IF \E mine \in refresh_tokens :
            mine.token = token /\ mine.user_id = row.user_id
     THEN [row EXCEPT !.revoked_at = SomeTime(dbNow), !.updated_at = dbNow]
     ELSE row : row \in refresh_tokens}

\* -- name: RevokeRefreshToken :exec   (NOW() is dbNow)
RevokeRefreshToken(token, dbNow) ==
    {IF row.token = token
     THEN [row EXCEPT !.revoked_at = SomeTime(dbNow), !.updated_at = dbNow]
     ELSE row : row \in refresh_tokens}

\* ------------------------------------------------------------ the clock

\* The clock advances by a tick or by sixty days, MaxClockAdvances times in all.
ClockAdvances == {1, SixtyDays}
AdvancesSoFar == (now \div SixtyDays) + (now % SixtyDays)
\* Whether the clock may still advance by n ticks.
CanAdvance(n) == AdvancesSoFar + n <= MaxClockAdvances
\* The clock's advance between two statements of a handler.
Preemptions == {0, 1}

Tick(d) ==
    /\ CanAdvance(1)
    /\ now' = now + d
    /\ UNCHANGED <<users, refresh_tokens, generated, requests, codec, cfg, chirps, hasher>>

\* ------------------------------------------------------------ requests

\* What a handler writes back: respondWithJSON / respondWithError / WriteHeader.
Response(status, error, token, refresh_token) ==
    [status |-> status, error |-> error, token |-> token, refresh_token |-> refresh_token]
respondWithError(code, msg) == Response(code, msg, NoJWT, NoString)
NoResponse == Response(0, NoString, NoJWT, NoString)

\* loginBody; ExpiresInSeconds is a *int: <<>> is nil.  decodes is whether the
\* request body is JSON the decoder accepts.
LoginBody(decodes, email, password, expires_in_seconds) ==
    [decodes |-> decodes, email |-> email, password |-> password,
     expires_in_seconds |-> expires_in_seconds]
NoBody == LoginBody(FALSE, NoString, NoString, <<>>)

\* The least number of seconds whose product with time.Second still fits a
\* time.Duration, and the number just below it.
OverflowSeconds == (MinDuration \div Second) - 1

ExpiresInInputs == {<<>>, <<-1>>, <<0>>, <<1>>, <<3601>>, <<OverflowSeconds>>}

LoginBodies ==
    {NoBody}
    \cup {LoginBody(TRUE, "a@b.com", "secret1", e) : e \in ExpiresInInputs}
    \cup {LoginBody(TRUE, "a@b.com", "", <<>>),
          LoginBody(TRUE, "c@d.com", "", <<>>),
          LoginBody(TRUE, "nobody@b.com", "secret1", <<>>)}

\* The refresh tokens clients hold: those a login response has handed out.
HandedOut ==
    {row.token : row \in InitialRefreshTokens} \cup
    {requests[i].resp.refresh_token :
        i \in {j \in DOMAIN requests :
                 /\ requests[j].kind = "login"
                 /\ requests[j].pc = "done"
                 /\ requests[j].resp.status = 200}}

\* The Authorization headers a client may send.
Headers ==
    {EmptyHeader, <<"Bearer">>}
    \cup {<<"Bearer", t>> : t \in HandedOut \cup {UnknownToken}}

\* A request as its handler starts; the last three fields are history the
\* handler itself does not keep.
NewRequest(kind, body, header) ==
    [kind |-> kind, pc |-> "start", body |-> body, header |-> header,
     tokenString |-> NoString, dbUser |-> NilUUID, expiresIn |-> 0,
     jwt |-> NoJWT, refreshToken |-> NoString,
     refreshTokenExpiresAt |-> 0, now |-> 0, resp |-> NoResponse,
     dbErr |-> FALSE, afterRevoke |-> FALSE, revokedAtMint |-> FALSE]

Done(r, resp) == [r EXCEPT !.pc = "done", !.resp = resp]

At(i, kind, pc) ==
    /\ i \in DOMAIN requests
    /\ requests[i].kind = kind
    /\ requests[i].pc = pc

\* Whether a revoke request for the token has already answered 204.
RevokeCompleted(token) ==
    \E j \in DOMAIN requests :
        /\ requests[j].kind = "revoke"
        /\ requests[j].pc = "done"
        /\ requests[j].resp.status = 204
        /\ requests[j].tokenString = token

\* Whether the table holds the token revoked.
IsRevoked(token) ==
    \E row \in refresh_tokens : row.token = token /\ row.revoked_at.Valid

\* ------------------------------------------------------------ loginHandler

\* The lifetime loginHandler asks MakeJWT for.
LoginExpiresIn(expires_in_seconds) ==
    IF expires_in_seconds # <<>> /\ expires_in_seconds[1] <= 3600
    THEN DurationOfSeconds(expires_in_seconds[1])
    ELSE Hour

LoginIncorrect == respondWithError(401, "Incorrect email or password")
\* A response that tells an unknown email from a wrong password.
LoginUnknownEmail_NotFound == respondWithError(404, "User not found")
LoginUnknownEmail == LoginIncorrect
LoginWrongPassword == LoginIncorrect

\* Decode the body.
LoginStart(body, limit) ==
    /\ Len(requests) < limit
    /\ LET r == NewRequest("login", body, EmptyHeader)
       IN requests' = Append(requests,
            IF ~body.decodes
            THEN Done(r, respondWithError(400, "Invalid request payload"))
            ELSE [r EXCEPT !.pc = "GetUserByEmail"])
    /\ UNCHANGED <<now, users, refresh_tokens, generated, codec, cfg, chirps, hasher>>

\* GetUserByEmail, then CheckPasswordHash and the choice of the lifetime.
LoginGetUserByEmail(i, dbOK) ==
    /\ At(i, "login", "GetUserByEmail")
    /\ LET r == requests[i]
           got == IF dbOK THEN GetUserByEmail(r.body.email)
                  ELSE [val |-> NilUUID, err |-> ErrConnection]
       IN requests' = [requests EXCEPT ![i] =
            IF got.err # NoError
            THEN Done([r EXCEPT !.dbErr = ~dbOK], LoginUnknownEmail)
            ELSE IF CheckPasswordHash(r.body.password,
                                      users[got.val].hashed_password) # NoError
            THEN Done(r, LoginWrongPassword)
            ELSE [r EXCEPT !.pc = "MakeJWT",
                           !.dbUser = got.val,
                           !.expiresIn = LoginExpiresIn(r.body.expires_in_seconds)]]
    /\ UNCHANGED <<now, users, refresh_tokens, generated, codec, cfg, chirps, hasher>>

\* MakeJWT (two readings of the clock), MakeRefreshToken, and the two readings
\* of the clock for refreshTokenExpiresAt and now.  The clock may advance by
\* d1 between the readings in MakeJWT and by d2 before the last reading.
LoginMakeTokens(i, d1, d2, randOK) ==
    /\ At(i, "login", "MakeJWT")
    /\ CanAdvance(d1 + d2)
    /\ LET r == requests[i]
           jwt == MakeJWT(r.dbUser, cfg.JWTSecret, r.expiresIn, now, now + d1)
       IN IF randOK
          THEN /\ requests' = [requests EXCEPT ![i] =
                     [r EXCEPT !.pc = "CreateRefreshToken",
                               !.jwt = jwt,
                               !.refreshToken = MakeRefreshToken(generated),
                               !.refreshTokenExpiresAt = (now + d1) + SixtyDays,
                               !.now = now + d1 + d2]]
               /\ generated' = generated + 1
               /\ now' = now + d1 + d2
          ELSE /\ d2 = 0
               /\ requests' = [requests EXCEPT ![i] =
                     Done([r EXCEPT !.jwt = jwt],
                          respondWithError(500, "Failed to create refresh token"))]
               /\ now' = now + d1
               /\ UNCHANGED generated
    /\ UNCHANGED <<users, refresh_tokens, codec, cfg, chirps, hasher>>

\* loginHandler that answers with the tokens whatever CreateRefreshToken
\* returned.
LoginCreateRefreshToken_IgnoresError(i, dbOK) ==
    /\ At(i, "login", "CreateRefreshToken")
    /\ LET r == requests[i]
       IN /\ requests' = [requests EXCEPT ![i] =
                Done([r EXCEPT !.dbErr = ~dbOK],
                     Response(200, NoString, r.jwt, r.refreshToken))]
          /\ refresh_tokens' =
                IF dbOK
                THEN CreateRefreshToken(r.refreshToken, r.now, r.now,
                                        r.dbUser, r.refreshTokenExpiresAt)
                ELSE refresh_tokens
    /\ UNCHANGED <<now, users, generated, codec, cfg, chirps, hasher>>

\* CreateRefreshToken, then the response.
LoginCreateRefreshToken(i, dbOK) ==
    /\ At(i, "login", "CreateRefreshToken")
    /\ LET r == requests[i]
       IN IF dbOK
          THEN /\ refresh_tokens' = CreateRefreshToken(r.refreshToken, r.now, r.now,
                                                       r.dbUser, r.refreshTokenExpiresAt)
               /\ requests' = [requests EXCEPT ![i] =
                     Done(r, Response(200, NoString, r.jwt, r.refreshToken))]
          ELSE /\ requests' = [requests EXCEPT ![i] =
                     Done([r EXCEPT !.dbErr = TRUE],
                          respondWithError(500, "Failed to save refresh token"))]
               /\ UNCHANGED refresh_tokens
    /\ UNCHANGED <<now, users, generated, codec, cfg, chirps, hasher>>

\* ------------------------------------------------------------ refreshHandler

RefreshNoHeader == respondWithError(401, "Couldn't find refresh token in headers")
RefreshDenied == respondWithError(401, "Invalid, expired, or revoked refresh token")

\* GetBearerToken.
RefreshStart(header) ==
    /\ Len(requests) < MaxRequests
    /\ LET r == NewRequest("refresh", NoBody, header)
           got == GetBearerToken(header)
       IN requests' = Append(requests,
            IF got.err # NoError
            THEN Done(r, RefreshNoHeader)
            ELSE [r EXCEPT !.pc = "GetUserFromRefreshToken",
                           !.tokenString = got.val,
                           !.afterRevoke = RevokeCompleted(got.val)])
    /\ UNCHANGED <<now, users, refresh_tokens, generated, codec, cfg, chirps, hasher>>

\* A refreshHandler that tells the caller when the token is a revoked one.
RefreshGetUser_TellsRevoked(i, dbOK) ==
    /\ At(i, "refresh", "GetUserFromRefreshToken")
    /\ LET r == requests[i]
           got == IF dbOK THEN GetUserFromRefreshToken(r.tokenString, now)
                  ELSE [val |-> NilUUID, err |-> ErrConnection]
       IN requests' = [requests EXCEPT ![i] =
            IF got.err # NoError
            THEN Done([r EXCEPT !.dbErr = ~dbOK],
                      IF dbOK /\ IsRevoked(r.tokenString)
                      THEN respondWithError(401, "Refresh token revoked")
                      ELSE RefreshDenied)
            ELSE [r EXCEPT !.pc = "MakeJWT",
                           !.dbUser = got.val,
                           !.expiresIn = Hour]]
    /\ UNCHANGED <<now, users, refresh_tokens, generated, codec, cfg, chirps, hasher>>

\* GetUserFromRefreshToken.
RefreshGetUser(i, dbOK) ==
    /\ At(i, "refresh", "GetUserFromRefreshToken")
    /\ LET r == requests[i]
           got == IF dbOK THEN GetUserFromRefreshToken(r.tokenString, now)
                  ELSE [val |-> NilUUID, err |-> ErrConnection]
       IN requests' = [requests EXCEPT ![i] =
            IF got.err # NoError
            THEN Done([r EXCEPT !.dbErr = ~dbOK], RefreshDenied)
            ELSE [r EXCEPT !.pc = "MakeJWT",
                           !.dbUser = got.val,
                           !.expiresIn = Hour]]
    /\ UNCHANGED <<now, users, refresh_tokens, generated, codec, cfg, chirps, hasher>>

\* A refreshHandler that rotates: it revokes the presented token as it answers.
RefreshMakeJWT_Rotating(i, d) ==
    /\ At(i, "refresh", "MakeJWT")
    /\ CanAdvance(d)
    /\ LET r == requests[i]
           jwt == MakeJWT(r.dbUser, cfg.JWTSecret, r.expiresIn, now, now + d)
       IN /\ requests' = [requests EXCEPT ![i] =
                Done([r EXCEPT !.jwt = jwt, !.revokedAtMint = IsRevoked(r.tokenString)],
                     Response(200, NoString, jwt, NoString))]
          /\ refresh_tokens' = RevokeRefreshToken(r.tokenString, now)
    /\ now' = now + d
    /\ UNCHANGED <<users, generated, codec, cfg, chirps, hasher>>

\* MakeJWT (two readings of the clock, d apart), then the response.
RefreshMakeJWT(i, d) ==
    /\ At(i, "refresh", "MakeJWT")
    /\ CanAdvance(d)
    /\ LET r == requests[i]
           jwt == MakeJWT(r.dbUser, cfg.JWTSecret, r.expiresIn, now, now + d)
       IN requests' = [requests EXCEPT ![i] =
            Done([r EXCEPT !.jwt = jwt, !.revokedAtMint = IsRevoked(r.tokenString)],
                 Response(200, NoString, jwt, NoString))]
    /\ now' = now + d
    /\ UNCHANGED <<users, refresh_tokens, generated, codec, cfg, chirps, hasher>>

\* ------------------------------------------------------------ revokeHandler

\* GetBearerToken.
RevokeStart(header) ==
    /\ Len(requests) < MaxRequests
    /\ LET r == NewRequest("revoke", NoBody, header)
           got == GetBearerToken(header)
       IN requests' = Append(requests,
            IF got.err # NoError
            THEN Done(r, RefreshNoHeader)
            ELSE [r EXCEPT !.pc = "RevokeRefreshToken", !.tokenString = got.val])
    /\ UNCHANGED <<now, users, refresh_tokens, generated, codec, cfg, chirps, hasher>>

\* RevokeRefreshToken, then 204 No Content.
RevokeUpdate(i, dbOK) ==
    /\ At(i, "revoke", "RevokeRefreshToken")
    /\ LET r == requests[i]
       IN IF dbOK
          THEN /\ refresh_tokens' = RevokeRefreshToken(r.tokenString, now)
               /\ requests' = [requests EXCEPT ![i] =
                     Done(r, Response(204, NoString, NoJWT, NoString))]
          ELSE /\ requests' = [requests EXCEPT ![i] =
                     Done([r EXCEPT !.dbErr = TRUE],
                          respondWithError(500, "Failed to revoke token"))]
               /\ UNCHANGED refresh_tokens
    /\ UNCHANGED <<now, users, generated, codec, cfg, chirps, hasher>>

\* ------------------------------------------------------------ protected handlers

\* The access token the login of time 0 returned together with "rt1".
InitialAccessToken == MakeJWT("u1", ServerSecret, Hour, 0, 0)

\* The access tokens clients hold: those a login or refresh response handed out.
HandedOutAccess ==
    {InitialAccessToken} \cup
    {requests[i].resp.token :
        i \in {j \in DOMAIN requests :
                 /\ requests[j].kind \in {"login", "refresh"}
                 /\ requests[j].pc = "done"
                 /\ requests[j].resp.status = 200}}

\* The Authorization headers a client may send to a protected operation.
AccessHeaders == {EmptyHeader} \cup {<<"Bearer", t>> : t \in HandedOutAccess}

AuthNoHeader == respondWithError(401, "Couldn't find JWT")
AuthInvalid == respondWithError(401, "Invalid JWT")

\* A protected handler that also asks the refresh_tokens table about the
\* subject's session.
AuthenticateRequest_ChecksSession(header) ==
    /\ Len(requests) < MaxRequests
    /\ LET r == NewRequest("authenticate", NoBody, header)
           got == GetBearerToken(header)
       IN requests' = Append(requests,
            IF got.err # NoError
            THEN Done(r, AuthNoHeader)
            ELSE LET seen == [r EXCEPT !.jwt = got.val, !.now = now]
                     userID == ValidateJWT(got.val, cfg.JWTSecret, now)
                 IN IF userID.err # NoError
                       \/ \E row \in refresh_tokens :
                             row.user_id = userID.val /\ row.revoked_at.Valid
                    THEN Done(seen, AuthInvalid)
                    ELSE [seen EXCEPT !.pc = "authenticated", !.dbUser = userID.val])
    /\ UNCHANGED <<now, users, refresh_tokens, generated, codec, cfg, chirps, hasher>>

\* The first step of createChirpHandler, updateUserHandler and
\* deleteChirpHandler: GetBearerToken, then ValidateJWT under cfg.JWTSecret.
\* A request that passes it is authenticated as the token's subject.
AuthenticateRequest(header) ==
    /\ Len(requests) < MaxRequests
    /\ LET r == NewRequest("authenticate", NoBody, header)
           got == GetBearerToken(header)
       IN requests' = Append(requests,
            IF got.err # NoError
            THEN Done(r, AuthNoHeader)
            ELSE LET seen == [r EXCEPT !.jwt = got.val, !.now = now]
                     userID == ValidateJWT(got.val, cfg.JWTSecret, now)
                 IN IF userID.err # NoError
                    THEN Done(seen, AuthInvalid)
                    ELSE [seen EXCEPT !.pc = "authenticated", !.dbUser = userID.val])
    /\ UNCHANGED <<now, users, refresh_tokens, generated, codec, cfg, chirps, hasher>>

\* ------------------------------------------------------------ deleteChirpHandler

\* The chirp ids uuid.Parse accepts; "c9" is the id of no chirp.
ChirpUUIDs == {"c1", "c2", "c9"}
\* The values a client may put in the path for {chirpID}.
ChirpPathValues == ChirpUUIDs \cup {"not-a-uuid"}

\* sqlc :one; SELECT id, user_id FROM chirps WHERE id = $1.
GetChirpForDeletion(id) == {row \in chirps : row.id = id}

\* sqlc :exec; DELETE FROM chirps WHERE id = $1 AND user_id = $2.
DeleteChirp(id, user_id) ==
    {row \in chirps : ~(row.id = id /\ row.user_id = user_id)}

DeleteForbidden ==
    respondWithError(403, "You do not have permission to delete this chirp")

\* deleteChirpHandler up to the first query: GetBearerToken, ValidateJWT
\* under cfg.JWTSecret, uuid.Parse of the path value.
DeleteChirpStart(header, chirpIDStr) ==
    /\ Len(requests) < MaxRequests
    /\ LET r == NewRequest("deleteChirp", [chirpID |-> chirpIDStr], header)
           got == GetBearerToken(header)
       IN requests' = Append(requests,
            IF got.err # NoError
            THEN Done(r, AuthNoHeader)
            ELSE LET seen == [r EXCEPT !.jwt = got.val, !.now = now]
                     userID == ValidateJWT(got.val, cfg.JWTSecret, now)
                 IN IF userID.err # NoError
                    THEN Done(seen, AuthInvalid)
                    ELSE IF chirpIDStr \notin ChirpUUIDs
                    THEN Done([seen EXCEPT !.dbUser = userID.val],
                              respondWithError(400, "Invalid chirp ID"))
                    ELSE [seen EXCEPT !.pc = "GetChirpForDeletion",
                                      !.dbUser = userID.val])
    /\ UNCHANGED <<now, users, refresh_tokens, generated, codec, cfg, chirps, hasher>>

\* deleteChirpHandler that leaves the ownership to the DELETE statement.
DeleteChirpGetChirp_NoOwnerCheck(i, dbOK) ==
    /\ At(i, "deleteChirp", "GetChirpForDeletion")
    /\ LET r == requests[i]
           rows == GetChirpForDeletion(r.body.chirpID)
       IN requests' = [requests EXCEPT ![i] =
            IF ~dbOK
            THEN Done([r EXCEPT !.dbErr = TRUE],
                      respondWithError(500, "Failed to retrieve chirp"))
            ELSE IF rows = {}
            THEN Done(r, respondWithError(404, "Chirp not found"))
            ELSE [r EXCEPT !.pc = "DeleteChirp"]]
    /\ UNCHANGED <<now, users, refresh_tokens, generated, codec, cfg, chirps, hasher>>

\* GetChirpForDeletion, then the comparison of the chirp's user_id with the
\* authenticated user.
DeleteChirpGetChirp(i, dbOK) ==
    /\ At(i, "deleteChirp", "GetChirpForDeletion")
    /\ LET r == requests[i]
           rows == GetChirpForDeletion(r.body.chirpID)
       IN requests' = [requests EXCEPT ![i] =
            IF ~dbOK
            THEN Done([r EXCEPT !.dbErr = TRUE],
                      respondWithError(500, "Failed to retrieve chirp"))
            ELSE IF rows = {}
            THEN Done(r, respondWithError(404, "Chirp not found"))
            ELSE IF \E dbChirp \in rows : dbChirp.user_id # r.dbUser
            THEN Done(r, DeleteForbidden)
            ELSE [r EXCEPT !.pc = "DeleteChirp"]]
    /\ UNCHANGED <<now, users, refresh_tokens, generated, codec, cfg, chirps, hasher>>

\* DeleteChirp with the chirp id and the authenticated user, then 204.
DeleteChirpExec(i, dbOK) ==
    /\ At(i, "deleteChirp", "DeleteChirp")
    /\ LET r == requests[i]
       IN IF dbOK
          THEN /\ chirps' = DeleteChirp(r.body.chirpID, r.dbUser)
               /\ requests' = [requests EXCEPT ![i] =
                     Done(r, Response(204, NoString, NoJWT, NoString))]
          ELSE /\ requests' = [requests EXCEPT ![i] =
                     Done([r EXCEPT !.dbErr = TRUE],
                          respondWithError(500, "Failed to delete chirp"))]
               /\ UNCHANGED chirps
    /\ UNCHANGED <<now, users, refresh_tokens, generated, codec, cfg, hasher>>


\* ------------------------------------------------------------ updateUserHandler

\* updateUserBody: the new email and the new password.
UpdateUserBody(decodes, email, password) ==
    [decodes |-> decodes, email |-> email, password |-> password]

\* The bodies of the update requests: one that does not decode, a new email
\* with the empty password, the old email with the empty password, and a new
\* email with a password of 73 bytes.
UpdateUserBodies ==
    {UpdateUserBody(FALSE, NoString, NoString),
     UpdateUserBody(TRUE, "nobody@b.com", ""),
     UpdateUserBody(TRUE, "a@b.com", ""),
     UpdateUserBody(TRUE, "nobody@b.com", "p72+a")}

\* -- name: UpdateUser :one; the email and the hash of the user's row.
UpdateUser(id, email, hashed_password) ==
    [users EXCEPT ![id] = [email |-> email, hashed_password |-> hashed_password]]

\* updateUserHandler up to the hashing: GetBearerToken, ValidateJWT under
\* cfg.JWTSecret, the decoding of the body.
UpdateUserStart(header, body) ==
    /\ Len(requests) < MaxRequests
    /\ LET r == NewRequest("updateUser", body, header)
           got == GetBearerToken(header)
       IN requests' = Append(requests,
            IF got.err # NoError
            THEN Done(r, AuthNoHeader)
            ELSE LET seen == [r EXCEPT !.jwt = got.val, !.now = now]
                     userID == ValidateJWT(got.val, cfg.JWTSecret, now)
                 IN IF userID.err # NoError
                    THEN Done(seen, AuthInvalid)
                    ELSE IF ~body.decodes
                    THEN Done([seen EXCEPT !.dbUser = userID.val],
                              respondWithError(400, "Invalid request payload"))
                    ELSE [seen EXCEPT !.pc = "UpdateUser", !.dbUser = userID.val])
    /\ UNCHANGED <<now, users, refresh_tokens, generated, codec, cfg, chirps, hasher>>

\* updateUserHandler that ends the user's sessions when it changes the
\* record.
UpdateUserExec_RevokesSessions(i, salt, rejectsLong, dbOK) ==
    /\ At(i, "updateUser", "UpdateUser")
    /\ LET r == requests[i]
           hashedPassword == HashPassword(r.body.password, salt, rejectsLong)
       IN IF hashedPassword.err # NoError
          THEN /\ requests' = [requests EXCEPT ![i] =
                     Done(r, respondWithError(500, "Failed to hash password"))]
               /\ UNCHANGED <<users, refresh_tokens>>
          ELSE IF ~dbOK
          THEN /\ requests' = [requests EXCEPT ![i] =
                     Done([r EXCEPT !.dbErr = TRUE],
                          respondWithError(500, "Failed to update user"))]
               /\ UNCHANGED <<users, refresh_tokens>>
          ELSE /\ users' = UpdateUser(r.dbUser, r.body.email, hashedPassword.val)
               /\ refresh_tokens' =
                     {IF row.user_id = r.dbUser
                      THEN [row EXCEPT !.revoked_at = SomeTime(now), !.updated_at = now]
                      ELSE row : row \in refresh_tokens}
               /\ requests' = [requests EXCEPT ![i] =
                     Done(r, Response(200, NoString, NoJWT, NoString))]
    /\ UNCHANGED <<now, generated, codec, cfg, chirps, hasher>>

\* HashPassword of the new password (with the salt bcrypt draws, in either
\* build), UpdateUser, then 200 with the user.
UpdateUserExec(i, salt, rejectsLong, dbOK) ==
    /\ At(i, "updateUser", "UpdateUser")
    /\ LET r == requests[i]
           hashedPassword == HashPassword(r.body.password, salt, rejectsLong)
       IN IF hashedPassword.err # NoError
          THEN /\ requests' = [requests EXCEPT ![i] =
                     Done(r, respondWithError(500, "Failed to hash password"))]
               /\ UNCHANGED users
          ELSE IF ~dbOK
          THEN /\ requests' = [requests EXCEPT ![i] =
                     Done([r EXCEPT !.dbErr = TRUE],
                          respondWithError(500, "Failed to update user"))]
               /\ UNCHANGED users
          ELSE /\ users' = UpdateUser(r.dbUser, r.body.email, hashedPassword.val)
               /\ requests' = [requests EXCEPT ![i] =
                     Done(r, Response(200, NoString, NoJWT, NoString))]
    /\ UNCHANGED <<now, refresh_tokens, generated, codec, cfg, chirps, hasher>>

\* ------------------------------------------------------------ credentials as strings

\* A credential as the string a client sends is modelled by its segments
\* between the "." characters.  A refresh token, hex.EncodeToString of 32
\* bytes, holds none and is one segment; an access token, jwt.Token's
\* SignedString, is header.claims.signature.
EncodeToString(token) == <<token>>
SignedString(token) == <<"HS256", token.claims, token.sig>>

ErrTokenMalformed == "token is malformed"

\* -- name: GetUserFromRefreshToken :one, with the token as the client sent
\* it: WHERE token = $1 compares strings.
GetUserFromRefreshTokenString(tokenString, dbNow) ==
    LET matching == {row.token : row \in
                       {r \in refresh_tokens : EncodeToString(r.token) = tokenString}}
    IN IF matching = {}
       THEN [val |-> NilUUID, err |-> ErrNoRows]
       ELSE GetUserFromRefreshToken(CHOOSE t \in matching : TRUE, dbNow)

\* ValidateJWT that falls back to the session table for what is not a JWT.
ValidateJWTString_AcceptsSession(tokenString, tokenSecret, t) ==
    IF Len(tokenString) # 3
    THEN GetUserFromRefreshTokenString(tokenString, t)
    ELSE ValidateJWT([claims |-> tokenString[2], sig |-> tokenString[3]],
                     tokenSecret, t)

\* ValidateJWT on the string: jwt.ParseWithClaims first splits it into its
\* three segments.
ValidateJWTString(tokenString, tokenSecret, t) ==
    IF Len(tokenString) # 3
    THEN [val |-> NilUUID, err |-> ErrTokenMalformed]
    ELSE ValidateJWT([claims |-> tokenString[2], sig |-> tokenString[3]],
                     tokenSecret, t)

\* The operations that ask for an access token.
ProtectedOperations == {"createChirp", "deleteChirp", "updateUser"}

\* The credentials clients hold, of both kinds, as strings.
Credentials ==
    {EncodeToString(t) : t \in HandedOut} \cup {SignedString(t) : t \in HandedOutAccess}

\* The first step of a protected operation's handler, with the credential as
\* the client sent it.
ProtectedStart(operation, credential) ==
    /\ Len(requests) < MaxRequests
    /\ LET r == NewRequest(operation, NoBody, <<"Bearer", credential>>)
           got == GetBearerToken(r.header)
       IN requests' = Append(requests,
            IF got.err # NoError
            THEN Done(r, AuthNoHeader)
            ELSE LET seen == [r EXCEPT !.tokenString = got.val, !.now = now]
                     userID == ValidateJWTString(got.val, cfg.JWTSecret, now)
                 IN IF userID.err # NoError
                    THEN Done(seen, AuthInvalid)
                    ELSE [seen EXCEPT !.pc = "authenticated", !.dbUser = userID.val])
    /\ UNCHANGED <<now, users, refresh_tokens, generated, codec, cfg, chirps, hasher>>

\* refreshHandler, with the credential as the client sent it; the clock may
\* advance by d between the two readings in MakeJWT.
RefreshCredential(credential, d) ==
    /\ Len(requests) < MaxRequests
    /\ CanAdvance(d)
    /\ LET r == NewRequest("refresh", NoBody, <<"Bearer", credential>>)
           got == GetBearerToken(r.header)
           dbUser == GetUserFromRefreshTokenString(got.val, now)
           jwt == MakeJWT(dbUser.val, cfg.JWTSecret, Hour, now, now + d)
       IN IF got.err # NoError
          THEN /\ requests' = Append(requests, Done(r, RefreshNoHeader))
               /\ UNCHANGED now
          ELSE IF dbUser.err # NoError
          THEN /\ requests' = Append(requests,
                     Done([r EXCEPT !.tokenString = got.val], RefreshDenied))
               /\ UNCHANGED now
          ELSE /\ requests' = Append(requests,
                     Done([r EXCEPT !.tokenString = got.val, !.dbUser = dbUser.val,
                                    !.expiresIn = Hour, !.jwt = jwt],
                          Response(200, NoString, jwt, NoString)))
               /\ now' = now + d
    /\ UNCHANGED <<users, refresh_tokens, generated, codec, cfg, chirps, hasher>>

\* ------------------------------------------------------------ specification

\* The codec at rest: the handlers call MakeJWT themselves.
NoCodec ==
    [pc |-> "idle", userID |-> NilUUID, tokenSecret |-> NoString, expiresIn |-> 0,
     issuedAtNow |-> 0, signedAt |-> 0, token |-> NoJWT, key |-> NoString,
     validatedAt |-> 0, result |-> [val |-> NilUUID, err |-> NoError],
     expired |-> FALSE]

\* The login bodies of the session specification: the second user's login, a
\* wrong password for the first user, and an email no user has.
SessionLoginBodies ==
    {LoginBody(TRUE, "c@d.com", "", <<>>),
     LoginBody(TRUE, "a@b.com", "", <<>>),
     LoginBody(TRUE, "nobody@b.com", "secret1", <<>>)}

Init ==
    /\ now = 0
    /\ users = InitialUsers
    /\ refresh_tokens = InitialRefreshTokens
    /\ generated = Cardinality(InitialRefreshTokens)
    /\ requests = <<>>
    /\ codec = NoCodec
    /\ cfg = apiConfig(ServerSecret)
    /\ chirps = InitialChirps
    /\ hasher = NoHasher

\* The session: login, refresh and revoke requests, handled concurrently.
Next ==
    \/ \E body \in SessionLoginBodies : LoginStart(body, MaxRequests)
    \/ \E i \in DOMAIN requests, dbOK \in BOOLEAN : LoginGetUserByEmail(i, dbOK)
    \/ \E i \in DOMAIN requests, d1 \in Preemptions, d2 \in Preemptions, randOK \in BOOLEAN :
            LoginMakeTokens(i, d1, d2, randOK)
    \/ \E i \in DOMAIN requests, dbOK \in BOOLEAN : LoginCreateRefreshToken(i, dbOK)
    \/ \E header \in Headers : RefreshStart(header)
    \/ \E i \in DOMAIN requests, dbOK \in BOOLEAN : RefreshGetUser(i, dbOK)
    \/ \E i \in DOMAIN requests, d \in Preemptions : RefreshMakeJWT(i, d)
    \/ \E header \in Headers : RevokeStart(header)
    \/ \E i \in DOMAIN requests, dbOK \in BOOLEAN : RevokeUpdate(i, dbOK)
    \/ \E d \in ClockAdvances : Tick(d)

Spec == Init /\ [][Next]_vars

\* Login requests alone, with every body.
NextLogin ==
    \/ \E body \in LoginBodies : LoginStart(body, MaxLogins)
    \/ \E i \in DOMAIN requests, dbOK \in BOOLEAN : LoginGetUserByEmail(i, dbOK)
    \/ \E i \in DOMAIN requests, d1 \in Preemptions, d2 \in Preemptions, randOK \in BOOLEAN :
            LoginMakeTokens(i, d1, d2, randOK)
    \/ \E i \in DOMAIN requests, dbOK \in BOOLEAN : LoginCreateRefreshToken(i, dbOK)
    \/ \E d \in ClockAdvances : Tick(d)

SpecLogin == Init /\ [][NextLogin]_vars

\* The session with the protected handlers: a login of the second user,
\* refresh and revoke requests with the tokens clients hold, and requests to
\* protected operations with the access tokens clients hold.
RefreshHeaders == {<<"Bearer", t>> : t \in HandedOut}

NextAccess ==
    \/ LoginStart(LoginBody(TRUE, "c@d.com", "", <<>>), MaxRequests)
    \/ \E i \in DOMAIN requests : LoginGetUserByEmail(i, TRUE)
    \/ \E i \in DOMAIN requests, d1 \in Preemptions : LoginMakeTokens(i, d1, 0, TRUE)
    \/ \E i \in DOMAIN requests : LoginCreateRefreshToken(i, TRUE)
    \/ \E header \in RefreshHeaders : RefreshStart(header)
    \/ \E i \in DOMAIN requests : RefreshGetUser(i, TRUE)
    \/ \E i \in DOMAIN requests, d \in Preemptions : RefreshMakeJWT(i, d)
    \/ \E header \in RefreshHeaders : RevokeStart(header)
    \/ \E i \in DOMAIN requests : RevokeUpdate(i, TRUE)
    \/ \E header \in AccessHeaders : AuthenticateRequest(header)
    \/ \E d \in ClockAdvances : Tick(d)

SpecAccess == Init /\ [][NextAccess]_vars

\* ------------------------------------------------------------ chirps

\* A login of the second user, and delete requests for the chirps with the
\* access tokens clients hold.
NextChirps ==
    \/ LoginStart(LoginBody(TRUE, "c@d.com", "", <<>>), MaxRequests)
    \/ \E i \in DOMAIN requests : LoginGetUserByEmail(i, TRUE)
    \/ \E i \in DOMAIN requests, d1 \in Preemptions : LoginMakeTokens(i, d1, 0, TRUE)
    \/ \E i \in DOMAIN requests : LoginCreateRefreshToken(i, TRUE)
    \/ \E header \in AccessHeaders, chirpIDStr \in ChirpPathValues :
            DeleteChirpStart(header, chirpIDStr)
    \/ \E i \in DOMAIN requests, dbOK \in BOOLEAN : DeleteChirpGetChirp(i, dbOK)
    \/ \E i \in DOMAIN requests, dbOK \in BOOLEAN : DeleteChirpExec(i, dbOK)
    \/ \E d \in ClockAdvances : Tick(d)

SpecChirps == Init /\ [][NextChirps]_vars

\* ------------------------------------------------------------ the hasher on its own

\* HashPassword of one password, then CheckPasswordHash of a candidate
\* against the result, in either build.
InitPassword ==
    /\ now = 0
    /\ users = InitialUsers
    /\ refresh_tokens = InitialRefreshTokens
    /\ generated = Cardinality(InitialRefreshTokens)
    /\ requests = <<>>
    /\ codec = NoCodec
    /\ cfg = apiConfig(ServerSecret)
    /\ chirps = InitialChirps
    /\ \E password \in PasswordInputs, candidate \in PasswordInputs,
          salt \in Salts, rejectsLong \in BOOLEAN :
          hasher = [NoHasher EXCEPT !.pc = "HashPassword", !.password = password,
                                    !.candidate = candidate, !.salt = salt,
                                    !.rejectsLong = rejectsLong]

PasswordHash ==
    /\ hasher.pc = "HashPassword"
    /\ hasher' = [hasher EXCEPT
                    !.pc = "CheckPasswordHash",
                    !.hash = HashPassword(hasher.password, hasher.salt,
                                          hasher.rejectsLong)]
    /\ UNCHANGED <<now, users, refresh_tokens, generated, requests, codec, cfg, chirps>>

PasswordCheck ==
    /\ hasher.pc = "CheckPasswordHash"
    /\ hasher' = [hasher EXCEPT
                    !.pc = "done",
                    !.checked = CheckPasswordHash(hasher.candidate, hasher.hash.val)]
    /\ UNCHANGED <<now, users, refresh_tokens, generated, requests, codec, cfg, chirps>>

NextPassword == PasswordHash \/ PasswordCheck

SpecPassword == InitPassword /\ [][NextPassword]_vars

\* ------------------------------------------------------------ revocation beside logins

\* Logins of the first user, who already holds "rt1", and revoke requests
\* with the tokens clients hold or with one the server never issued.
NextRevoke ==
    \/ LoginStart(LoginBody(TRUE, "a@b.com", "secret1", <<>>), MaxRequests)
    \/ \E i \in DOMAIN requests : LoginGetUserByEmail(i, TRUE)
    \/ \E i \in DOMAIN requests, d1 \in Preemptions : LoginMakeTokens(i, d1, 0, TRUE)
    \/ \E i \in DOMAIN requests : LoginCreateRefreshToken(i, TRUE)
    \/ \E header \in RefreshHeaders \cup {<<"Bearer", UnknownToken>>} :
            RevokeStart(header)
    \/ \E i \in DOMAIN requests, dbOK \in BOOLEAN : RevokeUpdate(i, dbOK)
    \/ \E d \in ClockAdvances : Tick(d)

SpecRevoke == Init /\ [][NextRevoke]_vars

\* ------------------------------------------------------------ both kinds of credential

\* A login of the second user, and requests to the protected operations and
\* to the refresh endpoint with every credential clients hold.
NextKinds ==
    \/ LoginStart(LoginBody(TRUE, "c@d.com", "", <<>>), MaxRequests)
    \/ \E i \in DOMAIN requests : LoginGetUserByEmail(i, TRUE)
    \/ \E i \in DOMAIN requests, d1 \in Preemptions : LoginMakeTokens(i, d1, 0, TRUE)
    \/ \E i \in DOMAIN requests : LoginCreateRefreshToken(i, TRUE)
    \/ \E operation \in ProtectedOperations, credential \in Credentials :
            ProtectedStart(operation, credential)
    \/ \E credential \in Credentials, d \in Preemptions : RefreshCredential(credential, d)
    \/ \E d \in ClockAdvances : Tick(d)

SpecKinds == Init /\ [][NextKinds]_vars

\* ------------------------------------------------------------ a change of the user's record

\* Update requests of the first user with the access tokens clients hold,
\* beside refresh requests with the refresh tokens clients hold.
NextUpdate ==
    \/ \E header \in AccessHeaders, body \in UpdateUserBodies :
            UpdateUserStart(header, body)
    \/ \E i \in DOMAIN requests, salt \in Salts, rejectsLong \in BOOLEAN, dbOK \in BOOLEAN :
            UpdateUserExec(i, salt, rejectsLong, dbOK)
    \/ \E header \in RefreshHeaders : RefreshStart(header)
    \/ \E i \in DOMAIN requests : RefreshGetUser(i, TRUE)
    \/ \E i \in DOMAIN requests, d \in Preemptions : RefreshMakeJWT(i, d)
    \/ \E d \in ClockAdvances : Tick(d)

SpecUpdate == Init /\ [][NextUpdate]_vars

\* ------------------------------------------------------------ a change of the secret

\* The server is stopped and started again with JWT_SECRET set to another
\* value (main refuses the empty one).  The database stays as it is; the
\* requests in flight get no answer.
Restart(jwtSecret) ==
    /\ jwtSecret # NoString
    /\ jwtSecret # cfg.JWTSecret
    /\ cfg' = apiConfig(jwtSecret)
    /\ requests' = [i \in DOMAIN requests |->
                      IF requests[i].pc \in {"done", "authenticated"}
                      THEN requests[i]
                      ELSE [requests[i] EXCEPT !.pc = "aborted"]]
    /\ UNCHANGED <<now, users, refresh_tokens, generated, codec, chirps, hasher>>

\* Refresh and revoke requests and requests to protected operations, across
\* changes of the secret.
NextRotate ==
    \/ \E header \in RefreshHeaders : RefreshStart(header)
    \/ \E i \in DOMAIN requests : RefreshGetUser(i, TRUE)
    \/ \E i \in DOMAIN requests, d \in Preemptions : RefreshMakeJWT(i, d)
    \/ \E header \in RefreshHeaders : RevokeStart(header)
    \/ \E i \in DOMAIN requests : RevokeUpdate(i, TRUE)
    \/ \E header \in AccessHeaders : AuthenticateRequest(header)
    \/ \E jwtSecret \in Secrets : Restart(jwtSecret)
    \/ \E d \in ClockAdvances : Tick(d)

SpecRotate == Init /\ [][NextRotate]_vars

\* ------------------------------------------------------------ header extraction on its own

\* The longest header, in fields.
MaxHeaderFields == 3

\* The fields of the headers tried: the empty field (two spaces in a row, or a
\* space at either end), the two schemes, another scheme, another case, a
\* credential.
HeaderFields == {"", "Bearer", "ApiKey", "Token", "bearer", "xyz"}
HeaderInputs == UNION {[1..n -> HeaderFields] : n \in 1..MaxHeaderFields}

\* One call of an extraction function on one header.
InitHeader ==
    /\ now = 0
    /\ users = InitialUsers
    /\ refresh_tokens = InitialRefreshTokens
    /\ generated = Cardinality(InitialRefreshTokens)
    /\ codec = NoCodec
    /\ cfg = apiConfig(ServerSecret)
    /\ chirps = InitialChirps
    /\ hasher = NoHasher
    /\ \E header \in HeaderInputs : requests = <<NewRequest("extract", NoBody, header)>>

\* The call's result: the string in tokenString, the error in resp.error.
Extracted(r, pc, got) ==
    [r EXCEPT !.pc = pc, !.tokenString = got.val, !.resp = respondWithError(0, got.err)]

ExtractBearerToken ==
    /\ At(1, "extract", "start")
    /\ requests' = <<Extracted(requests[1], "GetBearerToken",
                               GetBearerToken(requests[1].header))>>
    /\ UNCHANGED <<now, users, refresh_tokens, generated, codec, cfg, chirps, hasher>>

ExtractAPIKey ==
    /\ At(1, "extract", "start")
    /\ requests' = <<Extracted(requests[1], "GetAPIKey", GetAPIKey(requests[1].header))>>
    /\ UNCHANGED <<now, users, refresh_tokens, generated, codec, cfg, chirps, hasher>>

NextHeader == ExtractBearerToken \/ ExtractAPIKey

SpecHeader == InitHeader /\ [][NextHeader]_vars

\* ------------------------------------------------------------ the codec on its own

\* Seconds of single ticks the codec's clock makes after each hour.
MaxCodecSeconds == 2

\* The lifetimes MakeJWT is called with: a minute ago, none, less than a second,
\* a second, more than a second, an hour.
CodecLifetimes == {-(60 * Second), 0, 1, Second, Second + 1, Hour}

InitCodec ==
    /\ now = 0
    /\ users = InitialUsers
    /\ refresh_tokens = InitialRefreshTokens
    /\ generated = Cardinality(InitialRefreshTokens)
    /\ requests = <<>>
    /\ cfg = apiConfig(ServerSecret)
    /\ chirps = InitialChirps
    /\ hasher = NoHasher
    /\ \E userID \in UserIDs, tokenSecret \in Secrets, expiresIn \in CodecLifetimes :
          codec = [NoCodec EXCEPT !.pc = "MakeJWT_IssuedAt", !.userID = userID,
                                  !.tokenSecret = tokenSecret, !.expiresIn = expiresIn]

\* MakeJWT reads the clock for IssuedAt.
CodecIssuedAt ==
    /\ codec.pc = "MakeJWT_IssuedAt"
    /\ codec' = [codec EXCEPT !.pc = "MakeJWT_ExpiresAt", !.issuedAtNow = now]
    /\ UNCHANGED <<now, users, refresh_tokens, generated, requests, cfg, chirps, hasher>>

\* MakeJWT reads the clock for ExpiresAt and signs the token.
CodecExpiresAt ==
    /\ codec.pc = "MakeJWT_ExpiresAt"
    /\ codec' = [codec EXCEPT
                    !.pc = "issued",
                    !.signedAt = now,
                    !.token = MakeJWT(codec.userID, codec.tokenSecret, codec.expiresIn,
                                      codec.issuedAtNow, now)]
    /\ UNCHANGED <<now, users, refresh_tokens, generated, requests, cfg, chirps, hasher>>

\* ValidateJWT(token, key), any number of times.
CodecValidate(key) ==
    /\ codec.pc \in {"issued", "validated"}
    /\ LET result == ValidateJWT(codec.token, key, now)
       IN codec' = [codec EXCEPT
                       !.pc = "validated",
                       !.key = key,
                       !.validatedAt = now,
                       !.result = result,
                       !.expired = codec.expired \/ result.err = ErrTokenExpired]
    /\ UNCHANGED <<now, users, refresh_tokens, generated, requests, cfg, chirps, hasher>>

\* The codec's clock: single ticks for MaxCodecSeconds seconds, and one hour.
CodecTick(d) ==
    /\ d = 1 => (now % Hour) < MaxCodecSeconds * Second
    /\ d = Hour => now < Hour
    /\ now' = now + d
    /\ UNCHANGED <<users, refresh_tokens, generated, requests, codec, cfg, chirps, hasher>>

NextCodec ==
    \/ CodecIssuedAt
    \/ CodecExpiresAt
    \/ \E key \in Secrets : CodecValidate(key)
    \/ \E d \in {1, Hour} : CodecTick(d)

SpecCodec == InitCodec /\ [][NextCodec]_vars

\* ============================================================ claims

\* The row of the table that holds the token, if any.
RowsOf(token) == {row \in refresh_tokens : row.token = token}

\* ------------------------------------------------------------ C1

\* C1: a refresh request that starts after a revoke request for its token has
\* answered 204 never gets past the lookup and answers 401 with no access
\* token, whatever the token's expires_at.
C1_RefreshAfterRevokeDenied ==
    \A i \in DOMAIN requests :
        (requests[i].kind = "refresh" /\ requests[i].afterRevoke) =>
            /\ requests[i].pc \in {"GetUserFromRefreshToken", "done"}
            /\ requests[i].pc = "done" =>
                  /\ requests[i].resp.status = 401
                  /\ requests[i].resp.token = NoJWT

\* C1 witness: such a refresh has been answered while the token's expires_at is
\* still in the future.
C1_Witness ==
    \E i \in DOMAIN requests :
        /\ requests[i].kind = "refresh"
        /\ requests[i].afterRevoke
        /\ requests[i].pc = "done"
        /\ ~requests[i].dbErr
        /\ \E row \in RowsOf(requests[i].tokenString) : row.expires_at > now

\* ------------------------------------------------------------ C2

\* C2: the step of refreshHandler that looks the token T up at time now
\* resolves to user U iff a row has token = T, user_id = U, revoked_at null and
\* expires_at > now (the database answering).
C2_LookupResolvesIff ==
    [][\A i \in DOMAIN requests :
          (/\ At(i, "refresh", "GetUserFromRefreshToken")
           /\ requests'[i].pc # "GetUserFromRefreshToken"
           /\ ~requests'[i].dbErr) =>
              \A U \in UserIDs :
                  (requests'[i].pc = "MakeJWT" /\ requests'[i].dbUser = U) <=>
                  (\E row \in refresh_tokens :
                      /\ row.token = requests[i].tokenString
                      /\ row.user_id = U
                      /\ ~row.revoked_at.Valid
                      /\ row.expires_at > now)]_vars

\* C2 witness: a lookup at the very instant of expires_at, of a token never
\* revoked, did not resolve.
C2_Witness ==
    \E i \in DOMAIN requests :
        /\ requests[i].kind = "refresh"
        /\ requests[i].pc = "done"
        /\ requests[i].resp.status = 401
        /\ ~requests[i].dbErr
        /\ \E row \in RowsOf(requests[i].tokenString) :
              ~row.revoked_at.Valid /\ row.expires_at = now

\* ------------------------------------------------------------ C3

\* Whether the token is in the table and does not resolve at time t.
Unusable(token, t) ==
    \E row \in RowsOf(token) : row.revoked_at.Valid \/ row.expires_at <= t

\* C3: no step clears a revoked_at, and a token that does not resolve because
\* it is revoked or expired does not resolve after any step.
C3_RevocationOneWay ==
    [][\A row \in refresh_tokens :
          /\ row.revoked_at.Valid =>
                \A later \in refresh_tokens' :
                    later.token = row.token => later.revoked_at.Valid
          /\ Unusable(row.token, now) =>
                (GetUserFromRefreshToken(row.token, now).err # NoError)']_vars

\* C3 witness: a token was revoked, and a login that started later has stored
\* its own token.
C3_Witness ==
    \E i, j \in DOMAIN requests :
        /\ i < j
        /\ requests[i].kind = "revoke" /\ requests[i].pc = "done"
        /\ \E row \in RowsOf(requests[i].tokenString) : row.revoked_at.Valid
        /\ requests[j].kind = "login" /\ requests[j].pc = "done"
        /\ requests[j].resp.status = 200

\* ------------------------------------------------------------ C4

\* C4 as stated: no refresh request returns an access token that MakeJWT built
\* when the token's revoked_at was already set.
C4_NoTokenMintedAfterRevocation ==
    \A i \in DOMAIN requests :
        (requests[i].kind = "refresh" /\ requests[i].pc = "done"
            /\ requests[i].resp.status = 200) => ~requests[i].revokedAtMint

\* C4 amended: a refresh request whose lookup runs when revoked_at is set is
\* answered 401 with no access token.
C4_LookupAfterRevocationDenied ==
    [][\A i \in DOMAIN requests :
          (/\ At(i, "refresh", "GetUserFromRefreshToken")
           /\ requests'[i].pc # "GetUserFromRefreshToken"
           /\ IsRevoked(requests[i].tokenString)) =>
              /\ requests'[i].pc = "done"
              /\ requests'[i].resp.status = 401
              /\ requests'[i].resp.token = NoJWT]_vars

\* C4 witness: a refresh request that started before the revoke request of the
\* same token, and whose lookup found the token revoked.
C4_Witness ==
    \E i, j \in DOMAIN requests :
        /\ i < j
        /\ requests[i].kind = "refresh" /\ requests[i].pc = "done"
        /\ requests[j].kind = "revoke" /\ requests[j].pc = "done"
        /\ requests[i].tokenString = requests[j].tokenString
        /\ requests[i].resp.status = 401
        /\ ~requests[i].dbErr
        /\ \E row \in RowsOf(requests[i].tokenString) :
              row.revoked_at.Valid /\ row.expires_at > now

\* ------------------------------------------------------------ C5

\* Whether the codec's last validation returned the token's user and no error.
CodecAccepted == codec.result = [val |-> codec.userID, err |-> NoError]

C6_RejectedFromExpiryOn ==
    codec.pc = "validated" =>
        /\ codec.validatedAt >= codec.signedAt + codec.expiresIn =>
              (codec.result.err # NoError /\ codec.result.val = NilUUID)
        /\ codec.expired => (codec.result.err # NoError /\ codec.result.val = NilUUID)

\* C6 witness: a validation under the signing secret at the very instant
\* t0 + ttl, ttl positive, failed as expired.
C6_Witness ==
    /\ codec.pc = "validated"
    /\ codec.key = codec.tokenSecret
    /\ codec.expiresIn > 0
    /\ codec.validatedAt = codec.signedAt + codec.expiresIn
    /\ codec.result.err = ErrTokenExpired

\* ------------------------------------------------------------ C7

\* C7: a validation under a secret other than the signing secret returns an
\* error and no user.
C7_SignatureIsolation ==
    (codec.pc = "validated" /\ codec.key # codec.tokenSecret) =>
        (codec.result.err # NoError /\ codec.result.val = NilUUID)

\* C7 witness: a token with lifetime left was validated under another secret.
C7_Witness ==
    /\ codec.pc = "validated"
    /\ codec.key # codec.tokenSecret
    /\ codec.validatedAt < NumericDateTime(codec.token.claims.exp)
    /\ codec.result.err = ErrTokenSignatureInvalid

\* ------------------------------------------------------------ C8

\* The user the body's email belongs to.
OwnerOf(email) == {u \in DOMAIN users : users[u].email = email}

\* C8 as stated: the row of every refresh token a login has answered 200 with
\* has the authenticated user, created_at = updated_at, revoked_at null and
\* expires_at = created_at + 60 days.
C8_LoginRecord ==
    \A i \in DOMAIN requests :
        (requests[i].kind = "login" /\ requests[i].pc = "done"
            /\ requests[i].resp.status = 200) =>
            /\ RowsOf(requests[i].resp.refresh_token) # {}
            /\ \A row \in RowsOf(requests[i].resp.refresh_token) :
                  /\ row.user_id \in OwnerOf(requests[i].body.email)
                  /\ row.created_at = row.updated_at
                  /\ ~row.revoked_at.Valid
                  /\ row.expires_at = row.created_at + 60 * 24 * Hour

\* ------------------------------------------------------------ C9

\* C9 as stated: the lifetime of the access token a login answers 200 with is
\* one hour for no expires_in_seconds, the request for a request below one
\* hour, one hour for a request above one hour, and never more than 3600
\* seconds.
C9_LoginLifetime ==
    \A i \in DOMAIN requests :
        (requests[i].kind = "login" /\ requests[i].pc = "done"
            /\ requests[i].resp.status = 200) =>
            LET e == requests[i].body.expires_in_seconds
                ttl == requests[i].expiresIn
                token == requests[i].resp.token
            IN /\ e = <<>> => ttl = 3600 * Second
               /\ (e # <<>> /\ e[1] < 3600) => ttl = e[1] * Second
               /\ (e # <<>> /\ e[1] > 3600) => ttl = 3600 * Second
               /\ ttl <= 3600 * Second
               /\ token.claims.exp - token.claims.iat <= 3600 + 1

\* ------------------------------------------------------------ C10

\* C10: a login with an email no user has and a login with a user's email and
\* a wrong password are answered alike, with status 401.
C10_LoginFailuresAlike ==
    \A i, j \in DOMAIN requests :
        (/\ requests[i].kind = "login" /\ requests[i].pc = "done"
         /\ requests[i].body.decodes
         /\ OwnerOf(requests[i].body.email) = {}
         /\ requests[j].kind = "login" /\ requests[j].pc = "done"
         /\ requests[j].body.decodes
         /\ \E u \in OwnerOf(requests[j].body.email) :
               CheckPasswordHash(requests[j].body.password,
                                 users[u].hashed_password) # NoError) =>
            /\ requests[i].resp = requests[j].resp
            /\ requests[i].resp.status = 401

\* C10 witness: both logins have been answered, the database answering.
C10_Witness ==
    \E i, j \in DOMAIN requests :
        /\ requests[i].kind = "login" /\ requests[i].pc = "done"
        /\ OwnerOf(requests[i].body.email) = {}
        /\ ~requests[i].dbErr
        /\ requests[j].kind = "login" /\ requests[j].pc = "done"
        /\ OwnerOf(requests[j].body.email) # {}
        /\ requests[j].resp.status = 401
        /\ ~requests[j].dbErr

\* ------------------------------------------------------------ C11

\* The step is one of request i of the given kind: its arrival or a step of
\* its handler.
StepOf(i, kind) ==
    /\ i \in DOMAIN requests'
    /\ requests'[i].kind = kind
    /\ (i \in DOMAIN requests => requests'[i] # requests[i])

\* C11: no step of a refresh request changes the refresh_tokens table; a
\* lookup the database answers for a token that is in the table, not revoked
\* and not expired goes on to MakeJWT, whatever was presented before, and
\* MakeJWT is followed by 200 with an access token.
C11_RefreshNonRotating ==
    [][\A i \in DOMAIN requests' :
          StepOf(i, "refresh") =>
            /\ refresh_tokens' = refresh_tokens
            /\ (/\ i \in DOMAIN requests
                /\ requests[i].pc = "GetUserFromRefreshToken"
                /\ ~requests'[i].dbErr
                /\ RowsOf(requests[i].tokenString) # {}
                /\ ~Unusable(requests[i].tokenString, now))
                  => requests'[i].pc = "MakeJWT"
            /\ (i \in DOMAIN requests /\ requests[i].pc = "MakeJWT")
                  => /\ requests'[i].pc = "done"
                     /\ requests'[i].resp.status = 200
                     /\ requests'[i].resp.token # NoJWT]_vars

\* C11 witness: the same refresh token was presented twice, one request after
\* the other, each was answered 200 with an access token, and the table is as
\* it was.
C11_Witness ==
    /\ Len(requests) = 2
    /\ \A i \in DOMAIN requests :
          /\ requests[i].kind = "refresh"
          /\ requests[i].tokenString = "rt1"
          /\ requests[i].pc = "done"
          /\ requests[i].resp.status = 200
          /\ requests[i].resp.token # NoJWT
    /\ requests[1].resp.token.claims.iat < requests[2].resp.token.claims.iat
    /\ refresh_tokens = InitialRefreshTokens

\* ------------------------------------------------------------ C12

\* C12 as stated: the access token of every refresh answered 200 has the owner
\* of the presented refresh token as its subject, and its expiry is exactly
\* 3600 seconds after its issue time.
C12_RefreshTokenOfOwnerForOneHour ==
    \A i \in DOMAIN requests :
        (requests[i].kind = "refresh" /\ requests[i].pc = "done"
            /\ requests[i].resp.status = 200) =>
            LET token == requests[i].resp.token
            IN /\ \E row \in RowsOf(requests[i].tokenString) :
                      token.claims.sub = UUIDString(row.user_id)
               /\ token.claims.exp - token.claims.iat = 3600

\* ------------------------------------------------------------ C13

\* C13: a request to a protected operation that presents an access token the
\* server handed out, at a time before the token's exp, is authenticated as
\* the token's subject, whatever logins, refreshes and revokes have done to
\* the refresh_tokens table; at or after exp it is answered 401.
C13_AccessTokenHasNoRevocationState ==
    \A i \in DOMAIN requests :
        (requests[i].kind = "authenticate" /\ requests[i].jwt # NoJWT) =>
            IF requests[i].now < NumericDateTime(requests[i].jwt.claims.exp)
            THEN /\ requests[i].pc = "authenticated"
                 /\ UUIDString(requests[i].dbUser) = requests[i].jwt.claims.sub
            ELSE /\ requests[i].pc = "done"
                 /\ requests[i].resp = AuthInvalid

\* C13 witness: the access token of the first user's session was accepted
\* after the refresh token of that session had been revoked.
C13_Witness ==
    \E i \in DOMAIN requests :
        /\ requests[i].kind = "authenticate"
        /\ requests[i].pc = "authenticated"
        /\ requests[i].jwt = InitialAccessToken
        /\ requests[i].dbUser = "u1"
        /\ \E row \in RowsOf("rt1") :
              row.revoked_at.Valid /\ row.revoked_at.Time < requests[i].now

\* ------------------------------------------------------------ C14

\* The whitespace-separated tokens of a header: its fields that are not empty.
Tokens(authHeader) == SelectSeq(authHeader, LAMBDA f : f # "")

\* The scheme an extraction function asks for.
SchemeOf(pc) == IF pc = "GetBearerToken" THEN "Bearer" ELSE "ApiKey"

\* C14 as stated: extraction for scheme X returns the missing-header error
\* for the empty header; another error when the header has not exactly two
\* whitespace-separated tokens or the first is not X; and the second token
\* otherwise.
C14_HeaderExtraction ==
    \A i \in DOMAIN requests :
        (requests[i].kind = "extract" /\ requests[i].pc # "start") =>
            LET header == requests[i].header
                tokens == Tokens(header)
                val == requests[i].tokenString
                err == requests[i].resp.error
            IN IF header = EmptyHeader
               THEN err = ErrNoAuthHeaderIncluded /\ val = NoString
               ELSE IF Len(tokens) # 2 \/ tokens[1] # SchemeOf(requests[i].pc)
               THEN err \notin {NoError, ErrNoAuthHeaderIncluded} /\ val = NoString
               ELSE err = NoError /\ val = tokens[2]

\* ------------------------------------------------------------ C15

\* C15 as stated: a refresh or revoke request whose header GetBearerToken
\* refuses (missing or malformed) is answered with a 400-class status that is
\* not the authentication denial 401.
C15_BadHeaderIsMalformedInput ==
    \A i \in DOMAIN requests :
        (/\ requests[i].kind \in {"refresh", "revoke"}
         /\ requests[i].pc = "done"
         /\ GetBearerToken(requests[i].header).err # NoError) =>
            /\ requests[i].resp.status \in 400..499
            /\ requests[i].resp.status # 401

\* ------------------------------------------------------------ C16

\* C16 as stated: a request during whose database call the store failed
\* (login's user lookup, refresh's token lookup, login's write, revoke's
\* update) is answered with a 500-class status and no token.
C16_PersistenceFailureIs500 ==
    \A i \in DOMAIN requests :
        (requests[i].pc = "done" /\ requests[i].dbErr) =>
            /\ requests[i].resp.status \in 500..599
            /\ requests[i].resp.token = NoJWT
            /\ requests[i].resp.refresh_token = NoString

\* ------------------------------------------------------------ C17

\* C17 as stated: a revoke the database answered reports success (204) only
\* when the table holds a row with the presented token, which it has then
\* revoked; for a token of no row it reports an error.
C17_RevokeUnknownIsNotFound ==
    \A i \in DOMAIN requests :
        (/\ requests[i].kind = "revoke"
         /\ requests[i].pc = "done"
         /\ GetBearerToken(requests[i].header).err = NoError
         /\ ~requests[i].dbErr) =>
            IF RowsOf(requests[i].tokenString) = {}
            THEN requests[i].resp.status \in 400..499
            ELSE /\ requests[i].resp.status = 204
                 /\ \A row \in RowsOf(requests[i].tokenString) : row.revoked_at.Valid

\* ------------------------------------------------------------ C18

\* C18: the update of a revoke request for a token that is already revoked,
\* the database answering, is answered 204; it sets the row's revoked_at and
\* updated_at to the time of the update, which is not before the earlier
\* revoked_at; and the token does not resolve after it, as it did not before.
C18_RevokeAgain ==
    [][\A i \in DOMAIN requests :
          (/\ StepOf(i, "revoke")
           /\ requests[i].pc = "RevokeRefreshToken"
           /\ ~requests'[i].dbErr
           /\ IsRevoked(requests[i].tokenString)) =>
             /\ requests'[i].pc = "done"
             /\ requests'[i].resp.status = 204
             /\ \A row \in RowsOf(requests[i].tokenString) :
                   \E later \in refresh_tokens' :
                       /\ later.token = row.token
                       /\ later.revoked_at = SomeTime(now)
                       /\ later.revoked_at.Time >= row.revoked_at.Time
                       /\ later.updated_at = now
             /\ GetUserFromRefreshToken(requests[i].tokenString, now).err # NoError
             /\ (GetUserFromRefreshToken(requests[i].tokenString, now).err # NoError)']_vars

\* C18 witness: two revoke requests for the same token were both answered 204,
\* and the row carries a revoked_at later than the token's creation.
C18_Witness ==
    /\ Len(requests) = 2
    /\ \A i \in DOMAIN requests :
          /\ requests[i].kind = "revoke"
          /\ requests[i].tokenString = "rt1"
          /\ requests[i].pc = "done"
          /\ requests[i].resp.status = 204
    /\ \A row \in RowsOf("rt1") :
          /\ row.revoked_at.Valid
          /\ row.revoked_at.Time > row.created_at
          /\ row.updated_at = row.revoked_at.Time

\* ------------------------------------------------------------ C19

\* The secret an access token was signed under.
SignedUnder(token) == token.sig[1]

\* C19: a request to a protected operation that presents an access token
\* signed under a secret other than the server's present one is answered 401;
\* and a change of the secret changes what no refresh token resolves to.
C19_SecretChange ==
    [][/\ \A i \in DOMAIN requests' :
             (/\ StepOf(i, "authenticate")
              /\ requests'[i].jwt # NoJWT
              /\ SignedUnder(requests'[i].jwt) # cfg.JWTSecret) =>
                 /\ requests'[i].pc = "done"
                 /\ requests'[i].resp = AuthInvalid
       /\ cfg' # cfg =>
             \A token \in HandedOut \cup {UnknownToken} :
                 (GetUserFromRefreshToken(token, now))' =
                     GetUserFromRefreshToken(token, now)]_vars

\* C19 witness: after a change of the secret, an access token issued before
\* it, not yet expired, was refused, and the first user's refresh token got
\* that user a token signed under the new secret.
C19_Witness ==
    /\ cfg.JWTSecret # ServerSecret
    /\ \E i, j \in DOMAIN requests :
          /\ requests[i].kind = "authenticate"
          /\ requests[i].jwt = InitialAccessToken
          /\ requests[i].now < NumericDateTime(requests[i].jwt.claims.exp)
          /\ requests[i].resp = AuthInvalid
          /\ requests[j].kind = "refresh"
          /\ requests[j].tokenString = "rt1"
          /\ requests[j].pc = "done"
          /\ requests[j].resp.status = 200
          /\ SignedUnder(requests[j].resp.token) = cfg.JWTSecret
          /\ requests[j].resp.token.claims.sub = UUIDString("u1")

\* ------------------------------------------------------------ C20

\* A refresh request the lookup refused, the database answering.
RefreshRefused(i) ==
    /\ requests[i].kind = "refresh"
    /\ requests[i].pc = "done"
    /\ GetBearerToken(requests[i].header).err = NoError
    /\ ~requests[i].dbErr
    /\ requests[i].resp.status # 200

\* Why it was refused.  Rows are never deleted and revoked_at is never
\* cleared: a token of no row had none at the lookup; a refused token whose
\* row is not revoked was expired at the lookup; a refused token whose row is
\* not expired was revoked at the lookup.
RefusedNeverIssued(i) == RefreshRefused(i) /\ RowsOf(requests[i].tokenString) = {}
RefusedExpired(i) ==
    /\ RefreshRefused(i)
    /\ \E row \in RowsOf(requests[i].tokenString) : ~row.revoked_at.Valid
RefusedRevoked(i) ==
    /\ RefreshRefused(i)
    /\ \E row \in RowsOf(requests[i].tokenString) : row.expires_at > now

\* C20: refresh requests refused for a token never issued, for an expired
\* token and for a revoked token all get one and the same response: status
\* 401 and the message that names all three cases.
C20_RefreshDenialsAlike ==
    \A i, j \in DOMAIN requests :
        (/\ RefusedNeverIssued(i) \/ RefusedExpired(i) \/ RefusedRevoked(i)
         /\ RefusedNeverIssued(j) \/ RefusedExpired(j) \/ RefusedRevoked(j)) =>
            /\ requests[i].resp = requests[j].resp
            /\ requests[i].resp.status = 401
            /\ requests[i].resp.error = "Invalid, expired, or revoked refresh token"
            /\ requests[i].resp.token = NoJWT

\* C20 witness: a refresh with a token never issued and a refresh with an
\* expired token have both been refused.
C20_Witness ==
    \E i, j \in DOMAIN requests : RefusedNeverIssued(i) /\ RefusedExpired(j)

\* ------------------------------------------------------------ C21

\* C21: a step that removes a chirp is the DeleteChirp step of a delete
\* request that answers 204 and whose access token ValidateJWT accepted, when
\* the request arrived, with the chirp's owner as subject; and a delete
\* request whose lookup finds the chirp owned by another user than the
\* authenticated one answers 403 and leaves the chirps table as it is.
C21_DeleteOnlyByOwner ==
    [][/\ \A c \in chirps \ chirps' :
            \E i \in DOMAIN requests :
                /\ StepOf(i, "deleteChirp")
                /\ requests[i].pc = "DeleteChirp"
                /\ requests[i].body.chirpID = c.id
                /\ ValidateJWT(requests[i].jwt, cfg.JWTSecret, requests[i].now)
                     = [val |-> c.user_id, err |-> NoError]
                /\ requests'[i].resp.status = 204
       /\ \A i \in DOMAIN requests :
            (/\ StepOf(i, "deleteChirp")
             /\ requests[i].pc = "GetChirpForDeletion"
             /\ ~requests'[i].dbErr
             /\ \E c \in chirps :
                   c.id = requests[i].body.chirpID /\ c.user_id # requests[i].dbUser)
            => /\ requests'[i].pc = "done"
               /\ requests'[i].resp = DeleteForbidden
               /\ chirps' = chirps]_vars

\* One delete request was refused with 403 and its chirp is still there,
\* another deleted the chirp of its token's subject.
C21_Witness ==
    /\ \E i \in DOMAIN requests :
          /\ requests[i].kind = "deleteChirp"
          /\ requests[i].resp.status = 403
          /\ \E c \in chirps :
                c.id = requests[i].body.chirpID /\ c.user_id # requests[i].dbUser
    /\ \E j \in DOMAIN requests :
          /\ requests[j].kind = "deleteChirp"
          /\ requests[j].resp.status = 204
          /\ requests[j].body.chirpID \notin {c.id : c \in chirps}
          /\ requests[j].body.chirpID \in {c.id : c \in InitialChirps}

\* ------------------------------------------------------------ C22

\* C22: CheckPasswordHash of a candidate against HashPassword of a password
\* succeeds when the candidate is the password and fails when it is another
\* one, the empty password included.
C22_PasswordRoundTrip ==
    hasher.pc = "done" =>
        (hasher.checked = NoError) = (hasher.candidate = hasher.password)

\* ------------------------------------------------------------ C23

\* C23: a step of a revoke request for token T leaves every row of another
\* token as it is, adds and removes no row of another token, and every other
\* token resolves after the step to what it resolved to before.
C23_RevokeFrame ==
    [][\A i \in DOMAIN requests :
          (StepOf(i, "revoke") /\ requests[i].pc = "RevokeRefreshToken")
          => LET T == requests[i].tokenString
                 others == {row \in refresh_tokens : row.token # T}
             IN /\ {row \in refresh_tokens' : row.token # T} = others
                /\ \A row \in others :
                      GetUserFromRefreshToken(row.token, now)'
                        = GetUserFromRefreshToken(row.token, now)]_vars

\* A revoke request was answered 204, its token is revoked, and another
\* token of the same user still resolves.
C23_Witness ==
    \E i \in DOMAIN requests :
        /\ requests[i].kind = "revoke"
        /\ requests[i].pc = "done"
        /\ requests[i].resp.status = 204
        /\ \E mine \in refresh_tokens, other \in refresh_tokens :
              /\ mine.token = requests[i].tokenString
              /\ mine.revoked_at.Valid
              /\ other.token # mine.token
              /\ other.user_id = mine.user_id
              /\ GetUserFromRefreshToken(other.token, now).err = NoError

\* ------------------------------------------------------------ C24

\* C24: a token MakeJWT built for user U with a ttl of whole seconds has
\* subject U, and its exp is its iat plus the ttl.
C24_LifetimeIsTtl ==
    (codec.pc \in {"issued", "validated"} /\ codec.expiresIn % Second = 0) =>
        /\ codec.token.claims.sub = UUIDString(codec.userID)
        /\ NumericDateTime(codec.token.claims.exp)
             - NumericDateTime(codec.token.claims.iat) = codec.expiresIn

\* ------------------------------------------------------------ C25

\* C25: a step of a login changes the refresh_tokens table only when it
\* answers 200; a login that ends with another status answers with no access
\* token and no refresh token and its last step leaves the table as it is;
\* and when a login answers 200, the table holds the refresh token of the
\* response for the user who logged in, and the token resolves to that user
\* at that moment, unless the sixty days counted from the handler's reading
\* of the clock are already over.
C25_LoginFrame ==
    [][\A i \in DOMAIN requests' :
          StepOf(i, "login") =>
             LET r == requests'[i]
                 answered == r.pc = "done"
             IN /\ refresh_tokens' # refresh_tokens
                     => answered /\ r.resp.status = 200
                /\ (answered /\ r.resp.status # 200)
                     => /\ r.resp.token = NoJWT
                        /\ r.resp.refresh_token = NoString
                        /\ refresh_tokens' = refresh_tokens
                /\ (answered /\ r.resp.status = 200)
                     => \E n \in DOMAIN TokenPool, u \in UserIDs :
                           /\ r.resp.refresh_token = TokenPool[n]
                           /\ r.dbUser = u
                           /\ \E row \in refresh_tokens' :
                                 row.token = TokenPool[n] /\ row.user_id = u
                           /\ now' < r.refreshTokenExpiresAt
                                => GetUserFromRefreshToken(TokenPool[n], now)'
                                     = [val |-> u, err |-> NoError]]_vars

\* A login was answered 200 and the table holds the refresh token of the
\* response for the user who logged in.
C25_Witness ==
    \E i \in DOMAIN requests :
        /\ requests[i].kind = "login"
        /\ requests[i].pc = "done"
        /\ requests[i].resp.status = 200
        /\ \E row \in refresh_tokens :
              /\ row.token = requests[i].resp.refresh_token
              /\ row.user_id = requests[i].dbUser
              /\ row \notin InitialRefreshTokens

\* ------------------------------------------------------------ C26

\* C26: when a login answers 200, ValidateJWT under the server's secret
\* accepts the access token of the response at that moment.
C26_ReturnedTokenIsValid ==
    [][\A i \in DOMAIN requests :
          (/\ StepOf(i, "login")
           /\ requests'[i].pc = "done"
           /\ requests'[i].resp.status = 200)
          => /\ requests'[i].resp.token = requests[i].jwt
             /\ now' = now
             /\ ValidateJWT(requests[i].jwt, cfg.JWTSecret, now).err = NoError]_vars

\* ------------------------------------------------------------ C27

\* C27: an extraction that returns no error returns a credential that is not
\* the empty string.
C27_ExtractedCredentialNotEmpty ==
    \A i \in DOMAIN requests :
        (/\ requests[i].kind = "extract"
         /\ requests[i].pc # "start"
         /\ requests[i].resp.error = NoError) => requests[i].tokenString # ""

\* ------------------------------------------------------------ C28

\* C28: a protected operation that is sent a refresh token as its Bearer
\* credential answers 401 and authenticates no user; a refresh request that
\* is sent an access token answers 401 with no token.
C28_KindsNotInterchangeable ==
    \A i \in DOMAIN requests :
        LET r == requests[i]
        IN /\ (/\ r.kind \in ProtectedOperations
               /\ r.header \in {<<"Bearer", EncodeToString(TokenPool[n])>> :
                                  n \in DOMAIN TokenPool})
              => /\ r.pc = "done"
                 /\ r.resp = AuthInvalid
                 /\ r.dbUser = NilUUID
           /\ (/\ r.kind = "refresh"
               /\ r.header \in {<<"Bearer", SignedString(t)>> : t \in HandedOutAccess})
              => /\ r.pc = "done"
                 /\ r.resp = RefreshDenied

\* A protected operation has refused a refresh token that resolves, and the
\* refresh endpoint has refused an access token that validates.
C28_Witness ==
    /\ \E i \in DOMAIN requests, row \in refresh_tokens :
          /\ requests[i].kind \in ProtectedOperations
          /\ requests[i].header = <<"Bearer", EncodeToString(row.token)>>
          /\ GetUserFromRefreshToken(row.token, requests[i].now).err = NoError
          /\ requests[i].resp.status = 401
    /\ \E j \in DOMAIN requests, t \in HandedOutAccess :
          /\ requests[j].kind = "refresh"
          /\ requests[j].header = <<"Bearer", SignedString(t)>>
          /\ ValidateJWT(t, cfg.JWTSecret, now).err = NoError
          /\ requests[j].resp.status = 401

\* ------------------------------------------------------------ C29

\* C29: a step of an update-user request leaves the refresh_tokens table
\* and the secret as they are; every refresh token resolves after the step
\* to what it resolved to before, and ValidateJWT returns for every access
\* token clients hold what it returned before.
C29_UpdateUserFrame ==
    [][\A i \in DOMAIN requests' :
          StepOf(i, "updateUser") =>
             /\ refresh_tokens' = refresh_tokens
             /\ cfg' = cfg
             /\ \A n \in DOMAIN TokenPool :
                   GetUserFromRefreshToken(TokenPool[n], now)'
                     = GetUserFromRefreshToken(TokenPool[n], now)
             /\ \A t \in HandedOutAccess :
                   ValidateJWT(t, cfg.JWTSecret, now)'
                     = ValidateJWT(t, cfg.JWTSecret, now)]_vars

\* An update request has changed the first user's email and password, and
\* the refresh token and the access token issued before still resolve to
\* that user.
C29_Witness ==
    /\ \E i \in DOMAIN requests :
          /\ requests[i].kind = "updateUser"
          /\ requests[i].resp.status = 200
          /\ requests[i].dbUser = "u1"
    /\ users["u1"].email # InitialUsers["u1"].email
    /\ users["u1"].hashed_password # InitialUsers["u1"].hashed_password
    /\ GetUserFromRefreshToken("rt1", now) = [val |-> "u1", err |-> NoError]
    /\ ValidateJWT(InitialAccessToken, cfg.JWTSecret, now) = [val |-> "u1", err |-> NoError]

====
